---- MODULE Spec2Model ----
(***************************************************************************)
(* Model of timer0.c: the 1 ms tick counter of an AVR timer/counter 0, its *)
(* interrupt-safe accessor, and the seven-segment digit multiplexer that   *)
(* the compare-match interrupt handler drives.                             *)
(*                                                                         *)
(* One foreground thread (pc) runs init_timer0(), get_clock_ticks(), sei() *)
(* and cli(); the compare-match interrupt preempts it between any two of   *)
(* its steps whenever the global interrupt flag, the interrupt enable bit  *)
(* and the compare-match flag are all set.  The 8-bit CPU moves the 32-bit *)
(* clock_ticks one byte at a time, so the foreground copy and the          *)
(* foreground store of clock_ticks are four steps each.                    *)
(***************************************************************************)
EXTENDS Integers, Sequences, FiniteSets, TLC

(* ------------------------------------------------------------------ *)
(* Bounds of the model                                                 *)
(* ------------------------------------------------------------------ *)

\* Compare-match events the hardware timer raises in one behaviour.
MaxFirings == 2

\* Calls of init_timer0() and get_clock_ticks() the foreground makes in one
\* behaviour.
MaxCalls == 2

\* Clock cycles that pass, at most, while one init_timer0() runs (a dozen
\* stores; well below the 124 x 64 cycles the timer needs to count from 0
\* to its compare value).
MaxInitCycles == 40

\* Clock cycles the timer is followed for after a compare match without
\* seeing the next one.
MaxGapCycles == 16500

(* ------------------------------------------------------------------ *)
(* Program constants                                                   *)
(* ------------------------------------------------------------------ *)

\* uint8_t snakeLength / get_snake_length(): the largest 8-bit value.
MaxLength == 255

\* Bit numbers of <avr/io.h> used by the source.
SREG_I == 7
WGM01 == 1
CS00 == 0
CS01 == 1
OCIE0A == 1
OCF0A == 1
DDRC0 == 0

\* Value the source writes to OCR0A.
OCR0A_VALUE == 124

\* The clock frequency the source is written for: 8 MHz.
F_CPU == 8000000

\* A uint32_t is kept as its four bytes in memory order, least significant
\* first (byte k of the value is element k+1): <<b0, b1, b2, b3>>.
Bytes == 0..255
Zero32 == <<0, 0, 0, 0>>
Max32 == <<255, 255, 255, 255>>

\* The low and the high 16-bit half of a 32-bit value, as numbers.
Lo16(t) == t[2] * 256 + t[1]
Hi16(t) == t[4] * 256 + t[3]

\* The 32-bit value with high half h and low half l (both in 0..65535).
FromHalves(h, l) == <<l % 256, l \div 256, h % 256, h \div 256>>

\* Unsigned comparison of two 32-bit values.
Less32(a, b) == \/ Hi16(a) < Hi16(b)
                \/ Hi16(a) = Hi16(b) /\ Lo16(a) < Lo16(b)
LessEq32(a, b) == a = b \/ Less32(a, b)

\* Values get_snake_length() returns in the model: one digit, two digits,
\* and the largest uint8_t.
Lengths == {0, 37, MaxLength}

\* Tick counts the counter has reached when the model picks the program up:
\* fresh after init_timer0(), just below a carry out of byte 0, and just
\* below the 32-bit wrap (2^32 - 2).
StartTicks == {Zero32, <<255, 0, 0, 0>>, <<254, 255, 255, 255>>}

(* ------------------------------------------------------------------ *)
(* Bits of 8-bit registers                                             *)
(* ------------------------------------------------------------------ *)

Bit(x, b) == (x \div (2 ^ b)) % 2

RECURSIVE And8From(_, _, _)
And8From(a, b, i) ==
    IF i > 7 THEN 0
    ELSE Bit(a, i) * Bit(b, i) * (2 ^ i) + And8From(a, b, i + 1)

RECURSIVE Or8From(_, _, _)
Or8From(a, b, i) ==
    IF i > 7 THEN 0
    ELSE (IF Bit(a, i) + Bit(b, i) > 0 THEN 2 ^ i ELSE 0) + Or8From(a, b, i + 1)

\* a & b and a | b on 8-bit registers.
And8(a, b) == And8From(a, b, 0)
Or8(a, b) == Or8From(a, b, 0)

\* 1 << b
Shl1(b) == 2 ^ b

VARIABLES
    \* program state
    clock_ticks,        \* static volatile uint32_t clock_ticks
    digit,              \* static volatile uint8_t digit (file scope)
    SREG_IF,            \* the global interrupt enable bit of SREG (0 or 1)
    reg,                \* the I/O registers the source names, and the
                        \* count of the timer's clock prescaler
    \* foreground thread
    pc,                 \* position of the foreground code
    interrupts_were_on, \* local of get_clock_ticks
    return_value,       \* local of get_clock_ticks
    bytes_done,         \* bytes of clock_ticks already copied / stored
    tifr_read,          \* value read from TIFR0 by the read-modify-write
    \* interrupt handler: stack of activation frames, innermost last
    isr,
    \* display_length
    arg_value, arg_digit, \* arguments of a direct call
    dl_index,             \* index of the last seven_seg lookup
    dl_digit,             \* the parameter digit when the last call returned
    \* history of the behaviour (read by the properties only)
    hist

prog == <<clock_ticks, digit, SREG_IF, reg>>
fg == <<pc, interrupts_were_on, return_value, bytes_done, tifr_read>>
dl == <<arg_value, arg_digit, dl_index, dl_digit>>
vars == <<prog, fg, isr, dl, hist>>

(* ------------------------------------------------------------------ *)
(* Data and pure helpers of the source                                 *)
(* ------------------------------------------------------------------ *)

\* uint8_t seven_seg[10]; C index i is element i + 1.
seven_seg == <<63, 6, 91, 79, 102, 109, 125, 7, 127, 111>>

\* Variant: the table indexed from one instead of zero.
SevenSegRead_FromOne(i) == IF i \in 1..10 THEN {seven_seg[i]} ELSE Bytes

\* The bytes a read of seven_seg[i] can yield: the entry when i is inside
\* the array, any byte when it is not (the read is outside the object).
SevenSegRead(i) == IF i \in 0..9 THEN {seven_seg[i + 1]} ELSE Bytes

\* Variant: the two branches exchanged.
DLIndex_Swapped(snakeLength, d) ==
    IF d = 0 THEN snakeLength \div 10 ELSE snakeLength % 10

\* The index display_length looks up for its two arguments.
DLIndex(snakeLength, d) ==
    IF d = 0 THEN snakeLength % 10 ELSE snakeLength \div 10

\* What display_length assigns to its parameter digit.  The parameter hides
\* the file-scope digit, so this value is dropped when the call returns.
DLParam(d) == IF d = 0 THEN d + 1 ELSE 1 - d

\* Variant: the counter stops at its largest value instead of wrapping.
Inc32_Saturating(t) ==
    IF t = Max32 THEN t
    ELSE IF Lo16(t) < 65535 THEN FromHalves(Hi16(t), Lo16(t) + 1)
    ELSE FromHalves(Hi16(t) + 1, 0)

\* Variant: only the low byte is incremented, the carry is dropped.
Inc32_NoCarry(t) == [t EXCEPT ![1] = (@ + 1) % 256]

\* clock_ticks++ on a uint32_t.
Inc32(t) ==
    IF Lo16(t) < 65535 THEN FromHalves(Hi16(t), Lo16(t) + 1)
    ELSE FromHalves((Hi16(t) + 1) % 65536, 0)

\* Variant: the constant stored is 24 bits wide, the top byte is kept.
StoreZeroByte_Low3(t, i) == IF i = 4 THEN t ELSE [t EXCEPT ![i] = 0]

\* One byte of the store clock_ticks = 0L.
StoreZeroByte(t, i) == [t EXCEPT ![i] = 0]

\* One byte of the copy return_value = clock_ticks.
CopyByte(rv, t, i) == [rv EXCEPT ![i] = t[i]]

\* bit_is_set(SREG, SREG_I) stored in a uint8_t.
bit_is_set_I(flag) == IF flag = 1 THEN Shl1(SREG_I) ELSE 0

\* Variant: get_clock_ticks without its cli().
cli_Missing(flag) == flag

\* The global interrupt flag after cli().
cli(flag) == 0

\* Variant: the flag never restored, the sei() left out.
RestoreFlag_Never(were_on, flag) == flag

\* Variant: sei() called whatever the flag was on entry.
RestoreFlag_Always(were_on, flag) == 1

\* The global interrupt flag after if(interrupts_were_on) { sei(); }.
RestoreFlag(were_on, flag) == IF were_on # 0 THEN 1 ELSE flag

\* Variant: a handler declared ISR(vector, ISR_NOBLOCK) enables interrupts
\* again as it starts.
IsrEntryFlag_NoBlock(flag) == 1

\* The global interrupt flag while a handler declared with ISR(vector) runs:
\* the hardware clears it on entry and the handler does not set it again.
IsrEntryFlag(flag) == 0

\* An 8-bit register after writing w to it when its bits are cleared by
\* writing a one (interrupt flag registers).
WriteOneToClear(r, w) == r - And8(r, w)

\* Variant: the mask inverted, TIFR0 &= ~(1<<OCF0A).
Tifr0Written_Inverted(read) == And8(read, 255 - Shl1(OCF0A))

\* The value TIFR0 &= (1<<OCF0A) writes back, given the value it read.
Tifr0Written(read) == And8(read, Shl1(OCF0A))

\* The timer counts once a clock source is selected in TCCR0B (CS02..CS00).
TimerRunning == reg.TCCR0B % 8 # 0

(* ------------------------------------------------------------------ *)
(* Initial states                                                      *)
(* ------------------------------------------------------------------ *)

\* The registers as init_timer0 leaves them.
ConfiguredRegs ==
    [TCNT0 |-> 0, OCR0A |-> OCR0A_VALUE, TCCR0A |-> Shl1(WGM01),
     TCCR0B |-> Or8(Shl1(CS01), Shl1(CS00)), TIMSK0 |-> Shl1(OCIE0A),
     TIFR0 |-> 0, DDRA |-> 255, DDRC |-> Shl1(DDRC0), PORTA |-> 0,
     PRESCALER |-> 0]

\* The registers after a reset of the microcontroller: the timer stopped,
\* no interrupt enabled, no flag set.
ResetRegs ==
    [TCNT0 |-> 0, OCR0A |-> 0, TCCR0A |-> 0, TCCR0B |-> 0, TIMSK0 |-> 0,
     TIFR0 |-> 0, DDRA |-> 0, DDRC |-> 0, PORTA |-> 0, PRESCALER |-> 0]

\* What init_timer0 resets and configures (the status flags in TIFR0 are
\* the hardware's and are left out).
Snapshot == <<clock_ticks, digit, [reg EXCEPT !.TIFR0 = 0]>>

Count32(t) == [hi |-> Hi16(t), lo |-> Lo16(t)]

InitHist(n0) ==
    [nmatch |-> 0,           \* compare-match events raised so far
     ncalls |-> 0,           \* foreground calls made so far
     fired |-> Count32(n0),  \* handler runs completed since init_timer0
     exact |-> TRUE,         \* that init_timer0 was not interrupted
     init_dirty |-> FALSE,   \* the handler was entered during the running init
     init_from |-> Zero32,   \* clock_ticks when the running init was called
     prev_init |-> <<>>,     \* Snapshot at the previous init_timer0's return
     prev_from |-> Zero32,   \* clock_ticks when that init_timer0 was called
     consec |-> FALSE,       \* nothing ran since that return but init_timer0
     calls |-> 0,            \* display_length calls by the handler since sel0
     sel0 |-> 0,             \* digit at pick-up or at its last reset
     entry_I |-> 0,          \* SREG_IF when get_clock_ticks was called
     held |-> {},            \* values clock_ticks held during the running call
     gct_isr |-> 0,          \* handler entries during the running call
     has_prev |-> FALSE,     \* a get_clock_ticks has returned
     last_rv |-> Zero32,     \* its result
     wrapped |-> FALSE,      \* clock_ticks wrapped since the previous read
     reinit |-> FALSE,       \* init_timer0 was called since the previous read
     between |-> 0,          \* handler runs completed between two calls
     c9_ok |-> FALSE,        \* at this read: a previous one, no wrap, no init
     call_cycles |-> 0,      \* clock cycles passed in the running init
     flag_at_call |-> 0,     \* OCF0A when the running init was called
     since |-> -1,           \* clock cycles since the last compare match
                             \* (-1: none since init_timer0 was called)
     last_period |-> 0]      \* cycles between the last two matches (0: none)

\* The program after init_timer0() and n0 completed runs of the handler
\* (get_snake_length() having returned 0 at the last one), the foreground
\* between two calls with interrupts disabled.
Init ==
    \E n0 \in StartTicks :
        /\ clock_ticks = n0
        /\ digit = 0
        /\ SREG_IF = 0
        /\ reg = [ConfiguredRegs EXCEPT
                    !.PORTA = IF n0 = Zero32 THEN 0 ELSE seven_seg[1]]
        /\ pc = "idle"
        /\ interrupts_were_on = 0
        /\ return_value = Zero32
        /\ bytes_done = {}
        /\ tifr_read = 0
        /\ isr = <<>>
        /\ arg_value = 0
        /\ arg_digit = 0
        /\ dl_index = 0
        /\ dl_digit = IF n0 = Zero32 THEN 0 ELSE 1
        /\ hist = InitHist(n0)

\* The history once something other than init_timer0 runs.
NotConsec(h) == [h EXCEPT !.consec = FALSE, !.prev_init = <<>>,
                          !.prev_from = Zero32]

(* ------------------------------------------------------------------ *)
(* Foreground code.  It runs only while no handler is active.          *)
(* ------------------------------------------------------------------ *)

InGct == pc \in {"gct_82", "gct_83", "gct_84", "gct_85", "gct_88"}
InInit == pc \in {"init_36", "init_39", "init_42", "init_48", "init_49",
                  "init_55", "init_60r", "init_60w", "init_66", "init_68",
                  "init_70", "init_72"}

\* sei() in the caller's code.
FgSei ==
    /\ isr = <<>> /\ pc = "idle" /\ SREG_IF = 0
    /\ SREG_IF' = 1
    /\ hist' = NotConsec(hist)
    /\ UNCHANGED <<clock_ticks, digit, reg, fg, isr, dl>>

\* cli() in the caller's code.
FgCli ==
    /\ isr = <<>> /\ pc = "idle" /\ SREG_IF = 1
    /\ SREG_IF' = 0
    /\ hist' = NotConsec(hist)
    /\ UNCHANGED <<clock_ticks, digit, reg, fg, isr, dl>>

\* A step of init_timer0 that writes one register and moves on.
InitRegStep(at, next, r) ==
    /\ isr = <<>> /\ pc = at
    /\ reg' = r
    /\ pc' = next
    /\ UNCHANGED <<clock_ticks, digit, SREG_IF, interrupts_were_on,
                   return_value, bytes_done, tifr_read, isr, dl, hist>>

\* Call of init_timer0().
InitCall ==
    /\ isr = <<>> /\ pc = "idle"
    /\ hist.ncalls < MaxCalls
    /\ pc' = "init_36"
    /\ bytes_done' = {}
    /\ hist' = [hist EXCEPT !.ncalls = @ + 1, !.init_dirty = FALSE,
                            !.init_from = clock_ticks,
                            !.reinit = hist.has_prev,
                            !.call_cycles = 0,
                            !.flag_at_call = Bit(reg.TIFR0, OCF0A),
                            !.since = -1, !.last_period = 0]
    /\ UNCHANGED <<prog, interrupts_were_on, return_value, tifr_read, isr, dl>>

\* clock_ticks = 0L; four byte stores, in the order the compiler chose.
Init36 ==
    /\ isr = <<>> /\ pc = "init_36"
    /\ \E i \in (1..4) \ bytes_done :
        /\ clock_ticks' = StoreZeroByte(clock_ticks, i)
        /\ bytes_done' = bytes_done \cup {i}
        /\ pc' = IF bytes_done' = 1..4 THEN "init_39" ELSE "init_36"
    /\ UNCHANGED <<digit, SREG_IF, reg, interrupts_were_on, return_value,
                   tifr_read, isr, dl, hist>>

\* TCNT0 = 0;
Init39 == InitRegStep("init_39", "init_42", [reg EXCEPT !.TCNT0 = 0])

\* OCR0A = 124;
Init42 == InitRegStep("init_42", "init_48", [reg EXCEPT !.OCR0A = OCR0A_VALUE])

\* Variant: clear-on-compare mode not selected, TCCR0A = 0.
Init48_Normal == InitRegStep("init_48", "init_49", [reg EXCEPT !.TCCR0A = 0])

\* TCCR0A = (1<<WGM01);
Init48 == InitRegStep("init_48", "init_49", [reg EXCEPT !.TCCR0A = Shl1(WGM01)])

\* TCCR0B = (1<<CS01)|(1<<CS00);
Init49 ==
    InitRegStep("init_49", "init_55",
                [reg EXCEPT !.TCCR0B = Or8(Shl1(CS01), Shl1(CS00))])

\* TIMSK0 |= (1<<OCIE0A);
Init55 ==
    InitRegStep("init_55", "init_60r",
                [reg EXCEPT !.TIMSK0 = Or8(reg.TIMSK0, Shl1(OCIE0A))])

\* TIFR0 &= (1<<OCF0A); the read of the register ...
Init60Read ==
    /\ isr = <<>> /\ pc = "init_60r"
    /\ tifr_read' = reg.TIFR0
    /\ pc' = "init_60w"
    /\ UNCHANGED <<prog, interrupts_were_on, return_value, bytes_done, isr,
                   dl, hist>>

\* ... and the write of the masked value back to it.
Init60Write ==
    InitRegStep("init_60w", "init_66",
                [reg EXCEPT !.TIFR0 =
                    WriteOneToClear(reg.TIFR0, Tifr0Written(tifr_read))])

\* DDRA = 0xFF;
Init66 == InitRegStep("init_66", "init_68", [reg EXCEPT !.DDRA = 255])

\* DDRC = (1<<DDRC0);
Init68 == InitRegStep("init_68", "init_70", [reg EXCEPT !.DDRC = Shl1(DDRC0)])

\* digit = 0;
Init70 ==
    /\ isr = <<>> /\ pc = "init_70"
    /\ digit' = 0
    /\ pc' = "init_72"
    /\ hist' = [hist EXCEPT !.calls = 0, !.sel0 = 0]
    /\ UNCHANGED <<clock_ticks, SREG_IF, reg, interrupts_were_on,
                   return_value, bytes_done, tifr_read, isr, dl>>

\* Return from init_timer0().
InitReturn ==
    /\ isr = <<>> /\ pc = "init_72"
    /\ pc' = "idle"
    /\ hist' = IF hist.init_dirty
               THEN [NotConsec(hist) EXCEPT
                       !.exact = FALSE, !.fired = Count32(Zero32),
                       !.init_dirty = FALSE, !.init_from = Zero32,
                       !.call_cycles = 0, !.flag_at_call = 0]
               ELSE [hist EXCEPT
                       !.exact = TRUE, !.fired = Count32(Zero32),
                       !.init_from = Zero32, !.prev_init = Snapshot,
                       !.prev_from = hist.init_from, !.consec = TRUE,
                       !.call_cycles = 0, !.flag_at_call = 0]
    /\ UNCHANGED <<prog, interrupts_were_on, return_value, bytes_done,
                   tifr_read, isr, dl>>

\* Call of get_clock_ticks().
GctCall ==
    /\ isr = <<>> /\ pc = "idle"
    /\ hist.ncalls < MaxCalls
    /\ pc' = "gct_82"
    /\ hist' = [NotConsec(hist) EXCEPT
                  !.ncalls = @ + 1, !.entry_I = SREG_IF,
                  !.held = {clock_ticks}, !.gct_isr = 0]
    /\ UNCHANGED <<prog, interrupts_were_on, return_value, bytes_done,
                   tifr_read, isr, dl>>

\* uint8_t interrupts_were_on = bit_is_set(SREG, SREG_I);
Gct82 ==
    /\ isr = <<>> /\ pc = "gct_82"
    /\ interrupts_were_on' = bit_is_set_I(SREG_IF)
    /\ pc' = "gct_83"
    /\ UNCHANGED <<prog, return_value, bytes_done, tifr_read, isr, dl, hist>>

\* cli();
Gct83 ==
    /\ isr = <<>> /\ pc = "gct_83"
    /\ SREG_IF' = cli(SREG_IF)
    /\ bytes_done' = {}
    /\ pc' = "gct_84"
    /\ hist' = [hist EXCEPT
                  !.c9_ok = hist.has_prev /\ ~hist.wrapped /\ ~hist.reinit,
                  !.wrapped = FALSE, !.reinit = FALSE]
    /\ UNCHANGED <<clock_ticks, digit, reg, interrupts_were_on, return_value,
                   tifr_read, isr, dl>>

\* Variant: the copy made in the wrong direction, clock_ticks = return_value.
Gct84_Reversed ==
    /\ isr = <<>> /\ pc = "gct_84"
    /\ \E i \in (1..4) \ bytes_done :
        /\ clock_ticks' = CopyByte(clock_ticks, return_value, i)
        /\ bytes_done' = bytes_done \cup {i}
        /\ pc' = IF bytes_done' = 1..4 THEN "gct_85" ELSE "gct_84"
    /\ UNCHANGED <<digit, SREG_IF, reg, interrupts_were_on, return_value,
                   tifr_read, isr, dl, hist>>

\* return_value = clock_ticks; four byte loads, in the order the compiler
\* chose.
Gct84 ==
    /\ isr = <<>> /\ pc = "gct_84"
    /\ \E i \in (1..4) \ bytes_done :
        /\ return_value' = CopyByte(return_value, clock_ticks, i)
        /\ bytes_done' = bytes_done \cup {i}
        /\ pc' = IF bytes_done' = 1..4 THEN "gct_85" ELSE "gct_84"
    /\ UNCHANGED <<prog, interrupts_were_on, tifr_read, isr, dl, hist>>

\* if(interrupts_were_on) { sei(); }
Gct85 ==
    /\ isr = <<>> /\ pc = "gct_85"
    /\ SREG_IF' = RestoreFlag(interrupts_were_on, SREG_IF)
    /\ pc' = "gct_88"
    /\ UNCHANGED <<clock_ticks, digit, reg, interrupts_were_on, return_value,
                   bytes_done, tifr_read, isr, dl, hist>>

\* return return_value;
Gct88 ==
    /\ isr = <<>> /\ pc = "gct_88"
    /\ pc' = "idle"
    /\ hist' = [hist EXCEPT !.has_prev = TRUE, !.last_rv = return_value,
                            !.between = 0, !.held = {}, !.gct_isr = 0,
                            !.entry_I = 0, !.c9_ok = FALSE]
    /\ UNCHANGED <<prog, interrupts_were_on, return_value, bytes_done,
                   tifr_read, isr, dl>>

(* ------------------------------------------------------------------ *)
(* display_length                                                      *)
(* ------------------------------------------------------------------ *)

\* display_length(snakeLength, d): one lookup in seven_seg written to
\* PORTA, then the toggle of the parameter.  The file-scope digit is not
\* assigned: inside the function the name digit is the parameter.
display_length(snakeLength, d) ==
    /\ \E pattern \in SevenSegRead(DLIndex(snakeLength, d)) :
        reg' = [reg EXCEPT !.PORTA = pattern]
    /\ dl_index' = DLIndex(snakeLength, d)
    /\ dl_digit' = DLParam(d)
    /\ digit' = digit

(* ------------------------------------------------------------------ *)
(* The timer hardware and the interrupt handler                        *)
(* ------------------------------------------------------------------ *)

Top == isr[Len(isr)]
SetTop(f) == [isr EXCEPT ![Len(isr)] = f]

\* The running timer reaches its compare value: the hardware sets OCF0A.
CompareMatch ==
    /\ TimerRunning
    /\ pc # "dl_call"
    /\ hist.nmatch < MaxFirings
    /\ reg' = [reg EXCEPT !.TIFR0 = Or8(reg.TIFR0, Shl1(OCF0A))]
    /\ hist' = [NotConsec(hist) EXCEPT !.nmatch = @ + 1]
    /\ UNCHANGED <<clock_ticks, digit, SREG_IF, fg, isr, dl>>

\* The hardware enters ISR(TIMER0_COMPA_vect): interrupts are enabled
\* globally, the compare-match interrupt is enabled and its flag is set.
\* Entering clears the flag.
IsrEnter ==
    /\ SREG_IF = 1
    /\ Bit(reg.TIMSK0, OCIE0A) = 1
    /\ Bit(reg.TIFR0, OCF0A) = 1
    /\ reg' = [reg EXCEPT !.TIFR0 = WriteOneToClear(reg.TIFR0, Shl1(OCF0A))]
    /\ SREG_IF' = IsrEntryFlag(SREG_IF)
    /\ isr' = Append(isr, [pc |-> "isr_117", snakeLength |-> 0,
                           t0 |-> clock_ticks, ev |-> <<>>, d |-> 0])
    /\ hist' = [NotConsec(hist) EXCEPT
                  !.init_dirty = @ \/ InInit,
                  !.gct_isr = IF InGct THEN @ + 1 ELSE @]
    /\ UNCHANGED <<clock_ticks, digit, fg, dl>>

\* clock_ticks++;
Isr117 ==
    /\ isr # <<>> /\ Top.pc = "isr_117"
    /\ clock_ticks' = Inc32(clock_ticks)
    /\ isr' = SetTop([Top EXCEPT !.pc = "isr_119a", !.ev = Append(@, "inc")])
    /\ hist' = [hist EXCEPT
                  !.held = IF InGct THEN @ \cup {clock_ticks'} ELSE @,
                  !.wrapped = @ \/ ((hist.has_prev \/ InGct)
                                     /\ clock_ticks = Max32)]
    /\ UNCHANGED <<digit, SREG_IF, reg, fg, dl>>

\* get_snake_length(), evaluated as the first argument of the call: a
\* uint8_t.
Isr119Query ==
    /\ isr # <<>> /\ Top.pc = "isr_119a"
    /\ \E len \in Lengths :
        isr' = SetTop([Top EXCEPT !.pc = "isr_119b", !.snakeLength = len,
                                  !.ev = Append(@, "query")])
    /\ UNCHANGED <<prog, fg, dl, hist>>

\* display_length(<that value>, digit);
Isr119Call ==
    /\ isr # <<>> /\ Top.pc = "isr_119b"
    /\ display_length(Top.snakeLength, digit)
    /\ isr' = SetTop([Top EXCEPT !.pc = "isr_120", !.d = digit,
                                 !.ev = Append(@, "write")])
    /\ hist' = [hist EXCEPT !.calls = @ + 1]
    /\ UNCHANGED <<clock_ticks, SREG_IF, fg, arg_value, arg_digit>>

\* Return from the handler (reti): the frame is left and interrupts are
\* enabled again.
IsrReturn ==
    /\ isr # <<>> /\ Top.pc = "isr_120"
    /\ isr' = SubSeq(isr, 1, Len(isr) - 1)
    /\ SREG_IF' = 1
    /\ hist' = [hist EXCEPT
                  !.fired = IF ~hist.exact THEN @
                            ELSE IF @.lo < 65535 THEN [@ EXCEPT !.lo = @ + 1]
                            ELSE [hi |-> @.hi + 1, lo |-> 0],
                  !.between = IF hist.has_prev /\ pc = "idle" /\ Len(isr) = 1
                              THEN @ + 1 ELSE @]
    /\ UNCHANGED <<clock_ticks, digit, reg, fg, dl>>

(* ------------------------------------------------------------------ *)
(* The program                                                         *)
(* ------------------------------------------------------------------ *)

Next ==
    \/ FgSei \/ FgCli
    \/ InitCall \/ Init36 \/ Init39 \/ Init42 \/ Init48 \/ Init49 \/ Init55
    \/ Init60Read \/ Init60Write \/ Init66 \/ Init68 \/ Init70 \/ InitReturn
    \/ GctCall \/ Gct82 \/ Gct83 \/ Gct84 \/ Gct85 \/ Gct88
    \/ CompareMatch \/ IsrEnter \/ Isr117 \/ Isr119Query \/ Isr119Call
    \/ IsrReturn

Spec == Init /\ [][Next]_vars

(* ------------------------------------------------------------------ *)
(* The program with the interrupt served as the hardware serves it     *)
(* ------------------------------------------------------------------ *)

\* The compare-match interrupt is enabled, pending and not masked.
Deliverable ==
    /\ SREG_IF = 1
    /\ Bit(reg.TIMSK0, OCIE0A) = 1
    /\ Bit(reg.TIFR0, OCF0A) = 1

\* The foreground executes its next instruction: no interrupt is waiting to
\* be served, or the instruction is the one that follows the sei() of
\* get_clock_ticks (its return), which the hardware runs before it serves a
\* pending interrupt.
CpuFree == ~Deliverable \/ pc = "gct_88"

\* The steps of the handler, from its entry to its return.
Handler ==
    IsrEnter \/ Isr117 \/ Isr119Query \/ Isr119Call \/ IsrReturn

\* The steps of get_clock_ticks after its call.
GctSteps == Gct82 \/ Gct83 \/ Gct84 \/ Gct85 \/ Gct88

NextFair ==
    \/ (CpuFree /\ FgSei) \/ (CpuFree /\ FgCli)
    \/ (CpuFree /\ InitCall) \/ (CpuFree /\ Init36) \/ (CpuFree /\ Init39)
    \/ (CpuFree /\ Init42) \/ (CpuFree /\ Init48) \/ (CpuFree /\ Init49)
    \/ (CpuFree /\ Init55) \/ (CpuFree /\ Init60Read)
    \/ (CpuFree /\ Init60Write) \/ (CpuFree /\ Init66) \/ (CpuFree /\ Init68)
    \/ (CpuFree /\ Init70) \/ (CpuFree /\ InitReturn)
    \/ (CpuFree /\ GctCall) \/ (CpuFree /\ Gct82) \/ (CpuFree /\ Gct83)
    \/ (CpuFree /\ Gct84) \/ (CpuFree /\ Gct85) \/ (CpuFree /\ Gct88)
    \/ CompareMatch \/ IsrEnter \/ Isr117 \/ Isr119Query \/ Isr119Call
    \/ IsrReturn

\* The CPU keeps executing: a handler that can take a step takes it
\* (get_snake_length() returns), and so does a get_clock_ticks() that has
\* been called.  Nothing obliges the caller to call, or to enable
\* interrupts, again.
SpecFair ==
    /\ Init
    /\ [][NextFair]_vars
    /\ WF_vars(Handler)
    /\ WF_vars(CpuFree /\ GctSteps)

(* ------------------------------------------------------------------ *)
(* display_length called directly with any two arguments               *)
(* ------------------------------------------------------------------ *)

InitDL ==
    /\ clock_ticks = Zero32
    /\ digit = 0
    /\ SREG_IF = 0
    /\ reg = ConfiguredRegs
    /\ pc = "dl_call"
    /\ interrupts_were_on = 0
    /\ return_value = Zero32
    /\ bytes_done = {}
    /\ tifr_read = 0
    /\ isr = <<>>
    /\ arg_value \in 0..MaxLength
    /\ arg_digit \in {0, 1}
    /\ dl_index = 0
    /\ dl_digit = 0
    /\ hist = InitHist(Zero32)

DLCall ==
    /\ pc = "dl_call"
    /\ display_length(arg_value, arg_digit)
    /\ pc' = "dl_done"
    /\ UNCHANGED <<clock_ticks, SREG_IF, interrupts_were_on, return_value,
                   bytes_done, tifr_read, isr, arg_value, arg_digit, hist>>

NextDL == DLCall

SpecDL == InitDL /\ [][NextDL]_vars

(* ------------------------------------------------------------------ *)
(* The timer followed clock cycle by clock cycle                       *)
(* ------------------------------------------------------------------ *)

\* Clock cycles per count of the timer for the clock select bits CS02..CS00
\* (6 and 7 select an external clock, counted here as one per cycle).
PrescaleOf(cs) ==
    CASE cs = 1 -> 1 [] cs = 2 -> 8 [] cs = 3 -> 64 [] cs = 4 -> 256
      [] cs = 5 -> 1024 [] OTHER -> 1

\* One clock cycle of the running timer.  Every PrescaleOf cycles the
\* timer counts: from its compare value it sets OCF0A and, in clear-on-
\* compare mode (WGM01), goes back to 0; otherwise it counts up modulo 256.
ClockTick ==
    LET counts == reg.PRESCALER + 1 >= PrescaleOf(reg.TCCR0B % 8)
        match == counts /\ reg.TCNT0 = reg.OCR0A
        ctc == Bit(reg.TCCR0A, WGM01) = 1
    IN  /\ TimerRunning
        /\ reg' = [reg EXCEPT
                     !.PRESCALER = IF counts THEN 0 ELSE @ + 1,
                     !.TCNT0 = IF ~counts THEN @
                               ELSE IF ctc /\ @ = reg.OCR0A THEN 0
                               ELSE (@ + 1) % 256,
                     !.TIFR0 = IF match THEN Or8(@, Shl1(OCF0A)) ELSE @]
        /\ hist' = [hist EXCEPT
                      !.call_cycles = IF InInit THEN @ + 1 ELSE @,
                      !.since = IF match THEN 0
                                ELSE IF @ >= 0 THEN @ + 1 ELSE @,
                      !.last_period = IF match /\ hist.since >= 0
                                      THEN hist.since + 1 ELSE @]
        /\ UNCHANGED <<clock_ticks, digit, SREG_IF, fg, isr, dl>>

\* A clock cycle passes while init_timer0 runs.
InitClock ==
    /\ InInit
    /\ hist.call_cycles < MaxInitCycles
    /\ ClockTick

\* A clock cycle passes while the foreground is between two calls.
RunClock ==
    /\ pc = "idle"
    /\ hist.since < MaxGapCycles
    /\ ClockTick

\* Counts of the timer and of its prescaler at which init_timer0 is called
\* again while the timer runs: far from the compare value, and on it with
\* the next count of the timer at once, in half a count and a full count
\* away.
PhaseCounts == {0, OCR0A_VALUE}
PhasePrescaler == {0, 32, 63}

\* init_timer0() called with interrupts disabled, as its callers must: on
\* the microcontroller after reset, or on the running timer at one of the
\* phases above with the compare-match flag set or clear.
InitTimed ==
    /\ clock_ticks = Zero32
    /\ digit = 0
    /\ SREG_IF = 0
    /\ \/ reg = ResetRegs
       \/ \E c \in PhaseCounts, p \in PhasePrescaler, f \in {0, Shl1(OCF0A)} :
            reg = [ConfiguredRegs EXCEPT !.TCNT0 = c, !.PRESCALER = p,
                                         !.TIFR0 = f]
    /\ pc = "idle"
    /\ interrupts_were_on = 0
    /\ return_value = Zero32
    /\ bytes_done = {}
    /\ tifr_read = 0
    /\ isr = <<>>
    /\ arg_value = 0
    /\ arg_digit = 0
    /\ dl_index = 0
    /\ dl_digit = 0
    /\ hist = InitHist(Zero32)

NextInitTimed ==
    \/ InitCall \/ Init36 \/ Init39 \/ Init42 \/ Init48 \/ Init49 \/ Init55
    \/ Init60Read \/ Init60Write \/ Init66 \/ Init68 \/ Init70 \/ InitReturn
    \/ InitClock

SpecInitTimed == InitTimed /\ [][NextInitTimed]_vars

\* The microcontroller after reset, before init_timer0() is called; the
\* foreground calls it once.
InitReset ==
    /\ clock_ticks = Zero32
    /\ digit = 0
    /\ SREG_IF = 0
    /\ reg = ResetRegs
    /\ pc = "idle"
    /\ interrupts_were_on = 0
    /\ return_value = Zero32
    /\ bytes_done = {}
    /\ tifr_read = 0
    /\ isr = <<>>
    /\ arg_value = 0
    /\ arg_digit = 0
    /\ dl_index = 0
    /\ dl_digit = 0
    /\ hist = [InitHist(Zero32) EXCEPT !.ncalls = MaxCalls - 1]

\* init_timer0() called with interrupts disabled, and the timer it starts
\* followed cycle by cycle between the calls.
NextTimer ==
    \/ InitCall \/ Init36 \/ Init39 \/ Init42 \/ Init48 \/ Init49 \/ Init55
    \/ Init60Read \/ Init60Write \/ Init66 \/ Init68 \/ Init70 \/ InitReturn
    \/ RunClock

SpecTimer == InitReset /\ [][NextTimer]_vars

(* ------------------------------------------------------------------ *)
(* Properties                                                          *)
(* ------------------------------------------------------------------ *)

\* C1: get_clock_ticks() never returns a torn value.  When the call is
\* about to return, return_value is one of the values clock_ticks held at
\* some instant since the call was made, whatever interrupts fired between
\* its steps.
C1_NoTornRead ==
    pc = "gct_88" => return_value \in hist.held

\* C1 witness: a call made with interrupts enabled during which the handler
\* ran and carried out of the low byte (255 -> 256) is about to return.
C1_Witness ==
    /\ pc = "gct_88"
    /\ hist.entry_I = 1
    /\ hist.gct_isr > 0
    /\ {<<255, 0, 0, 0>>, <<0, 1, 0, 0>>} \subseteq hist.held

\* C2: after an init_timer0() that ran to its end and N completed runs of
\* the handler, a get_clock_ticks() during which no interrupt fired returns
\* N mod 2^32 (the count is kept as its two 16-bit halves; the high half of
\* N is not reduced, so N = 2^32 has high half 65536).
C2_TicksEqualFirings ==
    (pc = "gct_88" /\ hist.exact /\ hist.gct_isr = 0)
        => /\ Lo16(return_value) = hist.fired.lo
           /\ Hi16(return_value) = hist.fired.hi % 65536

\* C2 witness: the 2^32-th run of the handler has completed and the call
\* returns 0.
C2_Witness ==
    /\ pc = "gct_88" /\ hist.exact /\ hist.gct_isr = 0
    /\ hist.fired = [hi |-> 65536, lo |-> 0]
    /\ return_value = Zero32

\* C3: get_clock_ticks() keeps interrupts masked while it copies the
\* counter (no handler runs between its cli() and its restore), and when it
\* returns the global interrupt flag is what it was when it was called.
C3_FlagRestored ==
    /\ pc \in {"gct_84", "gct_85"} => SREG_IF = 0 /\ isr = <<>>
    /\ (pc = "gct_88" /\ isr = <<>>) => SREG_IF = hist.entry_I

\* C3 witness: a call made with interrupts disabled is about to return with
\* interrupts still disabled, although a compare match is pending.
C3_Witness ==
    /\ pc = "gct_88" /\ isr = <<>>
    /\ hist.entry_I = 0 /\ SREG_IF = 0
    /\ Bit(reg.TIFR0, OCF0A) = 1

\* C4: every call of the digit multiplexer by the handler moves the digit
\* selector to its other state, so after k calls the selector is its
\* starting state plus k, modulo 2.
C4_SelectorAlternates ==
    digit = (hist.sel0 + hist.calls) % 2

\* C5: with lengths of at most 99, successive interrupts write alternating
\* patterns: the 1st, 3rd, ... call of the multiplexer writes the pattern of
\* length mod 10, the 2nd, 4th, ... the pattern of length div 10.
C5_AlternatingDigits ==
    (Len(isr) = 1 /\ Top.pc = "isr_120" /\ Top.snakeLength <= 99)
        => reg.PORTA =
             IF (hist.sel0 + hist.calls) % 2 = 1
             THEN seven_seg[(Top.snakeLength % 10) + 1]
             ELSE seven_seg[(Top.snakeLength \div 10) + 1]

\* C6 as claimed: for every 8-bit value and either selector state the index
\* display_length looks up is in 0..9.
C6_IndexInTable ==
    pc = "dl_done" => dl_index \in 0..9

\* C6 as amended: the index is in 0..9 for every 8-bit value on the right
\* path and for every value up to 99 on the left path; on the left path a
\* value of 100 or more gives an index in 10..25, outside the table.
C6_IndexInTableUpTo99 ==
    pc = "dl_done" =>
        /\ (arg_digit = 0 \/ arg_value <= 99) => dl_index \in 0..9
        /\ (arg_digit # 0 /\ arg_value >= 100) => dl_index \in 10..25

\* C6 witness: the largest value whose left digit is inside the table.
C6_Witness ==
    pc = "dl_done" /\ arg_digit = 1 /\ arg_value = 99 /\ dl_index = 9

\* The seven-segment patterns of the decimal digits, as the specification
\* lists them.
RefPattern(n) ==
    CASE n = 0 -> 63 [] n = 1 -> 6 [] n = 2 -> 91 [] n = 3 -> 79
      [] n = 4 -> 102 [] n = 5 -> 109 [] n = 6 -> 125 [] n = 7 -> 7
      [] n = 8 -> 127 [] n = 9 -> 111

\* C7: for every value in 0..99, display_length writes to the segment port
\* the listed pattern of value mod 10 when called with digit 0 and the
\* listed pattern of value div 10 when called with digit 1.
C7_DisplayLengthPattern ==
    (pc = "dl_done" /\ arg_value <= 99)
        => reg.PORTA = RefPattern(IF arg_digit = 0 THEN arg_value % 10
                                  ELSE arg_value \div 10)

\* C7 witness: display_length(37, 1) has written the pattern of 3.
C7_Witness ==
    pc = "dl_done" /\ arg_value = 37 /\ arg_digit = 1 /\ reg.PORTA = 79

C9_Monotonic ==
    (pc = "gct_88" /\ hist.c9_ok)
        => /\ LessEq32(hist.last_rv, return_value)
           /\ hist.between > 0 => Less32(hist.last_rv, return_value)

\* C9 witness: a second call returns more than the first after a run of
\* the handler between them.
C9_Witness ==
    /\ pc = "gct_88" /\ hist.c9_ok
    /\ hist.between > 0
    /\ Less32(hist.last_rv, return_value)

\* b is a + 1 modulo 2^32.
IsSucc32(a, b) ==
    IF a = Max32 THEN b = Zero32
    ELSE IF Lo16(a) = 65535
         THEN Lo16(b) = 0 /\ Hi16(b) = Hi16(a) + 1
         ELSE Lo16(b) = Lo16(a) + 1 /\ Hi16(b) = Hi16(a)

\* What one run of the handler has done when it is at the given place.
DoneAt(place) ==
    CASE place = "isr_117" -> <<>>
      [] place = "isr_119a" -> <<"inc">>
      [] place = "isr_119b" -> <<"inc", "query">>
      [] place = "isr_120" -> <<"inc", "query", "write">>

\* C10: the handler is never entered while it runs, and each run does, in
\* this order, one increment of the tick counter by one, one query of the
\* length, and one call of the multiplexer with that length and the
\* selector as it is, which writes the segment port once.
C10_HandlerSequence ==
    /\ Len(isr) <= 1
    /\ isr # <<>> =>
        /\ Top.ev = DoneAt(Top.pc)
        /\ Top.pc = "isr_117" => clock_ticks = Top.t0
        /\ Top.pc # "isr_117" => IsSucc32(Top.t0, clock_ticks)
        /\ Top.pc = "isr_120" =>
            /\ Top.d = digit
            /\ dl_index = DLIndex(Top.snakeLength, Top.d)
            /\ reg.PORTA \in SevenSegRead(dl_index)

\* C10 witness: a run of the handler that was given the length 37 is about
\* to return, having written the pattern of 7.
C10_Witness ==
    /\ Len(isr) = 1 /\ Top.pc = "isr_120"
    /\ Top.snakeLength = 37
    /\ Top.ev = <<"inc", "query", "write">>
    /\ reg.PORTA = 7

\* C11: the tick counter changes only in init_timer0's store of 0 (bytes
\* become 0) and in the handler's increment (by one); get_clock_ticks,
\* display_length and every other step leave it as it is.  The digit
\* selector changes only in init_timer0's reset and in the handler's call of
\* display_length.  The segment port changes only in a call of
\* display_length.
C11_WriteOwnership ==
    [][/\ clock_ticks' # clock_ticks =>
            \/ /\ isr = <<>> /\ pc = "init_36"
               /\ \A i \in 1..4 : clock_ticks'[i] \in {clock_ticks[i], 0}
            \/ /\ isr # <<>> /\ Top.pc = "isr_117"
               /\ IsSucc32(clock_ticks, clock_ticks')
       /\ digit' # digit =>
            \/ isr = <<>> /\ pc = "init_70" /\ digit' = 0
            \/ isr # <<>> /\ Top.pc = "isr_119b"
       /\ reg'.PORTA # reg.PORTA =>
            \/ isr # <<>> /\ Top.pc = "isr_119b"
            \/ pc = "dl_call"
      ]_vars

\* C11 witness: a get_clock_ticks() that no interrupt disturbed is about to
\* return a count other than 0, the segment port holding a pattern the
\* handler's display_length wrote after init_timer0 was called again.
C11_Witness ==
    /\ pc = "gct_88" /\ hist.gct_isr = 0
    /\ return_value = clock_ticks /\ clock_ticks = <<1, 0, 0, 0>>
    /\ hist.exact /\ hist.ncalls = 2
    /\ reg.PORTA = seven_seg[8]

\* C12: when an init_timer0() called with interrupts disabled returns, the
\* compare-match flag OCF0A is clear, whether it was set or clear when the
\* call was made, so no interrupt is pending when interrupts are enabled.
C12_NoStaleFlag ==
    pc = "init_72" => Bit(reg.TIFR0, OCF0A) = 0

\* C12 witness: an init_timer0() called with the flag set is about to
\* return, clock cycles having passed during the call, with the flag clear.
C12_Witness ==
    /\ pc = "init_72"
    /\ hist.flag_at_call = 1
    /\ hist.call_cycles > 0
    /\ Bit(reg.TIFR0, OCF0A) = 0

\* C13: once init_timer0 has started the timer, it runs in clear-on-compare
\* mode at one count per 64 clock cycles with the compare value 124 =
\* 8000000 / 64 / 1000 - 1; the counting register stays within 0..124, and
\* two successive compare matches are exactly 64 x 125 = 8000 clock cycles
\* apart (1 ms at 8 MHz), the next one never later than that.
C13_OneMillisecondPeriod ==
    /\ TimerRunning =>
         /\ Bit(reg.TCCR0A, WGM01) = 1
         /\ PrescaleOf(reg.TCCR0B % 8) = 64
         /\ reg.OCR0A = ((F_CPU \div 64) \div 1000) - 1
         /\ reg.TCNT0 \in 0..124
    /\ hist.last_period \in {0, 64 * 125}
    /\ hist.since < 64 * 125
    /\ 64 * 125 * 1000 = F_CPU

\* C13 witness: two compare matches have been seen 8000 cycles apart, and
\* the counting register is at its compare value again.
C13_Witness ==
    /\ hist.last_period = 8000
    /\ reg.TCNT0 = 124
    /\ hist.since = 124 * 64

\* A compare match is pending while get_clock_ticks, called with
\* interrupts enabled, has them masked for its copy.
MaskedPending ==
    /\ pc \in {"gct_84", "gct_85"}
    /\ interrupts_were_on # 0
    /\ Bit(reg.TIMSK0, OCIE0A) = 1
    /\ Bit(reg.TIFR0, OCF0A) = 1

\* C14: a compare match pending while get_clock_ticks has interrupts masked
\* stays pending as long as they are masked, and is followed by a run of
\* the handler that increments the tick counter; and every call of
\* get_clock_ticks returns.
C14_NoTickLost ==
    /\ [][MaskedPending /\ pc' \in {"gct_84", "gct_85"}
            => Bit(reg'.TIFR0, OCF0A) = 1]_vars
    /\ MaskedPending ~> (isr # <<>> /\ Top.pc = "isr_119a")
    /\ InGct ~> (pc = "idle")

\* C14 witness: the copy is complete, interrupts are still masked and were
\* enabled at the call, and a compare match is pending.
C14_Witness ==
    /\ MaskedPending
    /\ pc = "gct_85"
    /\ SREG_IF = 0
    /\ hist.entry_I = 1

====
